---- MODULE Spec2Model ----
(***************************************************************************)
(* A model of btd_client/source.py: BalticTransparencyClient.              *)
(*                                                                         *)
(* Text is modelled as a sequence of one-character strings, so that        *)
(* parsing (strptime), concatenation (f-strings, + 'T00:00') and the       *)
(* substring test ("Downward" in col) are computed, not assumed.           *)
(* Series identifiers and exception names are opaque and stay TLA+ strings.*)
(***************************************************************************)
EXTENDS Integers, Sequences, FiniteSets, TLC

VARIABLES
    phase,          \* "new" (no client yet), "ready" (constructed), "failed" (__init__ raised)
    arg_start,      \* the start_date argument __init__ was called with
    arg_end,        \* the end_date argument __init__ was called with
    start_date,     \* self.start_date
    end_date,       \* self.end_date
    n_calls,        \* facade methods invoked so far
    call,           \* name of the facade method invoked last
    n_requests,     \* requests.get calls issued so far
    last_request,   \* params of the last requests.get
    last_response,  \* status and body the endpoint answered the last GET with
    n_unravels,     \* _unravel_response invocations so far
    last_unravel,   \* arguments (and the columns_map local) of the last _unravel_response
    outcome,        \* what the last call returned or raised
    input           \* the arguments drawn for the single call of SpecUnravel / SpecMod

vars == <<phase, arg_start, arg_end, start_date, end_date, n_calls, call, n_requests,
          last_request, last_response, n_unravels, last_unravel, outcome, input>>

(***************************************************************************)
(* Bounds                                                                  *)
(***************************************************************************)
\* facade calls made on one client
MaxCalls == 2
\* timeseries entries in a response handed to _unravel_response
MaxEntries == 2
\* values carried by one timeseries entry
MaxValues == 3
\* cells (rows x columns) of the table the post-processed variant works on
MaxCells == 4

(***************************************************************************)
(* Text                                                                    *)
(***************************************************************************)
Digits == {"0", "1", "2", "3", "4", "5", "6", "7", "8", "9"}

DigitVal(c) ==
    CASE c = "0" -> 0 [] c = "1" -> 1 [] c = "2" -> 2 [] c = "3" -> 3 [] c = "4" -> 4
      [] c = "5" -> 5 [] c = "6" -> 6 [] c = "7" -> 7 [] c = "8" -> 8 [] c = "9" -> 9
      [] OTHER -> 0

\* s[i], or "" past either end
At(s, i) == IF i \in 1..Len(s) THEN s[i] ELSE ""

SP == <<" ">>

\* Python's `pat in s` on str
Contains(s, pat) ==
    \E i \in 1..(Len(s) - Len(pat) + 1) : SubSeq(s, i, i + Len(pat) - 1) = pat

Range(f) == {f[i] : i \in DOMAIN f}

(***************************************************************************)
(* datetime.strptime(s, "%Y-%m-%d"), as CPython's _strptime computes it:   *)
(* the format becomes the regular expression                               *)
(*   (\d\d\d\d)-(1[0-2]|0[1-9]|[1-9])-(3[0-1]|[1-2]\d|0[1-9]|[1-9]| [1-9]) *)
(* matched at the start of s (alternatives in order, with backtracking);   *)
(* text left over after the match, and a day the month does not have, are  *)
(* ValueErrors too.                                                        *)
(***************************************************************************)
\* length matched by alternative a of the %m group at position i (0: no match)
MonthAlt(s, i, a) ==
    CASE a = 1 -> IF At(s, i) = "1" /\ At(s, i + 1) \in {"0", "1", "2"} THEN 2 ELSE 0
      [] a = 2 -> IF At(s, i) = "0" /\ At(s, i + 1) \in (Digits \ {"0"}) THEN 2 ELSE 0
      [] OTHER -> IF At(s, i) \in (Digits \ {"0"}) THEN 1 ELSE 0

\* length matched by the %d group at position i: the first alternative that matches
DayLen(s, i) ==
    IF At(s, i) = "3" /\ At(s, i + 1) \in {"0", "1"} THEN 2
    ELSE IF At(s, i) \in {"1", "2"} /\ At(s, i + 1) \in Digits THEN 2
    ELSE IF At(s, i) = "0" /\ At(s, i + 1) \in (Digits \ {"0"}) THEN 2
    ELSE IF At(s, i) \in (Digits \ {"0"}) THEN 1
    ELSE IF At(s, i) = " " /\ At(s, i + 1) \in (Digits \ {"0"}) THEN 2
    ELSE 0

\* alternative a of %m matches at 6 and the rest of the pattern ("-" and %d) follows
MonthAltFits(s, a) ==
    LET ml == MonthAlt(s, 6, a)
    IN  ml > 0 /\ At(s, 6 + ml) = "-" /\ DayLen(s, 6 + ml + 1) > 0

IsLeap(y) == (y % 4 = 0 /\ y % 100 # 0) \/ y % 400 = 0

DaysInMonth(y, m) ==
    IF m = 2 THEN (IF IsLeap(y) THEN 29 ELSE 28)
    ELSE IF m \in {4, 6, 9, 11} THEN 30 ELSE 31

\* int() of the text at i..i+n-1 (a leading blank counts as nothing)
IntAt(s, i, n) ==
    IF n = 1 THEN DigitVal(At(s, i)) ELSE 10 * DigitVal(At(s, i)) + DigitVal(At(s, i + 1))

\* TRUE iff datetime.strptime(s, "%Y-%m-%d") returns; FALSE iff it raises ValueError
strptime_ok(s) ==
    /\ \A i \in 1..4 : At(s, i) \in Digits
    /\ At(s, 5) = "-"
    /\ \E a \in 1..3 : MonthAltFits(s, a)
    /\ LET a    == CHOOSE x \in 1..3 : MonthAltFits(s, x) /\ \A y \in 1..(x - 1) : ~MonthAltFits(s, y)
           ml   == MonthAlt(s, 6, a)
           dl   == DayLen(s, 6 + ml + 1)
           year == 1000 * DigitVal(s[1]) + 100 * DigitVal(s[2]) + 10 * DigitVal(s[3]) + DigitVal(s[4])
           mon  == IntAt(s, 6, ml)
           day  == IntAt(s, 6 + ml + 1, dl)
       IN  /\ Len(s) = 6 + ml + dl          \* else "unconverted data remains"
           /\ year >= 1                     \* datetime.MINYEAR
           /\ day <= DaysInMonth(year, mon) \* else "day is out of range for month"

T0000 == <<"T", "0", "0", ":", "0", "0">>

NoText == <<>>

(***************************************************************************)
(* Values of the parsed JSON document and of table cells                   *)
(***************************************************************************)
\* a JSON number
Num(n) == [t |-> "num", n |-> n, s |-> NoText]
\* a JSON string
Str(s) == [t |-> "str", n |-> 0, s |-> s]
\* JSON null (Python None)
Null == [t |-> "null", n |-> 0, s |-> NoText]
\* the missing value pandas fills in (NaN)
NaN == [t |-> "nan", n |-> 0, s |-> NoText]

\* pandas' isna
IsNA(c) == c.t \in {"null", "nan"}

\* A "from" text: an ISO local reading `wall` (hours since 2024-01-01T00:00) followed
\* by an explicit UTC offset of `off` hours ("Z" is 0).
Stamp(wall, off) == [wall |-> wall, off |-> off]

\* one element of data.columns
Col(index, g0, g1, label) ==
    [index |-> index, group_level_0 |-> g0, group_level_1 |-> g1, label |-> label]

\* one element of data.timeseries (the key "from" is a TLA+ keyword away from `from`)
Entry(from_, values) == [from_ |-> from_, values |-> values]

\* a response body: text that json.loads accepts (valid) holding data.columns and
\* data.timeseries, or text it rejects
Body(columns, timeseries) == [valid |-> TRUE, columns |-> columns, timeseries |-> timeseries]
NotJson == [valid |-> FALSE, columns |-> <<>>, timeseries |-> <<>>]

\* the key of the timestamp in every record
DATETIME == <<"d", "a", "t", "e", "t", "i", "m", "e">>

EmptyDF == [columns |-> <<>>, index |-> <<>>, data |-> <<>>]
NoOutcome == [kind |-> "none", exc |-> "", status |-> 0, df |-> EmptyDF]
Raised(exc, status) == [kind |-> "error", exc |-> exc, status |-> status, df |-> EmptyDF]
Returned(df) == [kind |-> "table", exc |-> "", status |-> 0, df |-> df]

(***************************************************************************)
(* _unravel_response                                                       *)
(***************************************************************************)
\* the display name of one column descriptor at the requested depth
DisplayName_NoGroup1(col, levels) ==
    IF levels = 1 THEN col.group_level_0
    ELSE col.group_level_0 \o SP \o col.label

DisplayName(col, levels) ==
    IF levels = 3
    THEN col.group_level_0 \o SP \o col.group_level_1 \o SP \o col.label
    ELSE IF levels = 2
    THEN col.group_level_0 \o SP \o col.label
    ELSE col.group_level_0

\* the dict comprehension: a later descriptor with the same index replaces an earlier one
columns_map_ByPosition(columns_info, levels) ==
    [i \in {k - 1 : k \in DOMAIN columns_info} |-> DisplayName(columns_info[i + 1], levels)]

columns_map(columns_info, levels) ==
    [i \in {columns_info[k].index : k \in DOMAIN columns_info} |->
        LET k == CHOOSE k \in DOMAIN columns_info :
                    /\ columns_info[k].index = i
                    /\ \A j \in DOMAIN columns_info : columns_info[j].index = i => j <= k
        IN  DisplayName(columns_info[k], levels)]

\* `if idx in columns_map`
IsMapped(idx, cmap) == idx \in DOMAIN cmap

\* s without repetitions, each element at its first place (dict key order)
RECURSIVE Dedup(_)
Dedup(s) ==
    IF s = <<>> THEN <<>>
    ELSE LET r == Dedup(SubSeq(s, 1, Len(s) - 1))
             x == s[Len(s)]
         IN  IF x \in Range(r) THEN r ELSE Append(r, x)

RECURSIVE Flatten(_)
Flatten(ss) == IF ss = <<>> THEN <<>> ELSE Flatten(SubSeq(ss, 1, Len(ss) - 1)) \o ss[Len(ss)]

\* The record built for one entry: a dict starting as {'datetime': entry['from']} and
\* assigned record[columns_map[idx]] = value for idx = 0, 1, ... in order.
\*   keys: the keys after 'datetime', in insertion order;  val: the value under each;
\*   stamp: entry['from'];  clobbered: a column named 'datetime' replaced the timestamp.
build_record(entry, cmap) ==
    LET n      == Len(entry.values)
        idxs   == SelectSeq([i \in 1..n |-> i - 1], LAMBDA i : IsMapped(i, cmap))
        names  == [j \in DOMAIN idxs |-> cmap[idxs[j]]]
        keys   == SelectSeq(Dedup(names), LAMBDA x : x # DATETIME)
    IN  [stamp     |-> entry.from_,
         clobbered |-> DATETIME \in Range(names),
         keys      |-> keys,
         val       |-> [c \in Range(keys) |->
                          LET j == CHOOSE j \in DOMAIN idxs :
                                      /\ names[j] = c
                                      /\ \A h \in DOMAIN idxs : names[h] = c => h <= j
                          IN  entry.values[idxs[j] + 1]]]

\* df['datetime'] exists: pd.DataFrame([]) has no columns at all
has_datetime_column_Always(data_records) == TRUE

has_datetime_column(data_records) == Len(data_records) > 0

\* Europe/Vilnius in 2024 (tz database): summer time, UTC+3, from 2024-03-31T01:00Z
\* until 2024-10-27T01:00Z, winter time, UTC+2, otherwise. Hours since 2024-01-01T00:00Z.
DST_BEGIN == 2161
DST_END == 7201

VilniusOffset_Fixed(utc) == 2

VilniusOffset(utc) == IF DST_BEGIN <= utc /\ utc < DST_END THEN 3 ELSE 2

\* pd.to_datetime of one "from" text: the instant, wall reading minus offset
to_utc(stamp) == stamp.wall - stamp.off

\* .dt.tz_convert('Europe/Vilnius').dt.tz_localize(None): the naive local reading
to_vilnius_naive(utc) == utc + VilniusOffset(utc)

\* pd.DataFrame(data_records) without its 'datetime' column: the columns are the keys
\* in order of first appearance, a key a record lacks is NaN in its row
frame_columns(data_records) ==
    Dedup(Flatten([k \in DOMAIN data_records |-> data_records[k].keys]))

frame_data(data_records) ==
    LET cols == frame_columns(data_records)
    IN  [k \in DOMAIN data_records |->
            [c \in Range(cols) |->
                IF c \in Range(data_records[k].keys) THEN data_records[k].val[c] ELSE NaN]]

\* What _unravel_response(response, levels) returns or raises.
\* Line 90 fails (a) when a column named 'datetime' replaced the timestamps, which
\* leaves nothing tz-aware to convert, and (b) when the "from" texts carry different
\* UTC offsets: pd.to_datetime without utc=True then yields an object column and
\* the .dt accessor raises.
unravel(response, levels) ==
    IF ~response.valid THEN Raised("JSONDecodeError", 0)
    ELSE
      LET cmap == columns_map(response.columns, levels)
          recs == [k \in DOMAIN response.timeseries |-> build_record(response.timeseries[k], cmap)]
      IN  IF ~has_datetime_column(recs) THEN Raised("KeyError", 0)
          ELSE IF \E k \in DOMAIN recs : recs[k].clobbered THEN Raised("TypeError", 0)
          ELSE IF Cardinality({recs[k].stamp.off : k \in DOMAIN recs}) > 1
               THEN Raised("AttributeError", 0)
          ELSE Returned([columns |-> frame_columns(recs),
                         index   |-> [k \in DOMAIN recs |-> to_vilnius_naive(to_utc(recs[k].stamp))],
                         data    |-> frame_data(recs)])


(***************************************************************************)
(* total_satisfied_demand_for_balancing_purposes_mod_df: the processing    *)
(* applied to the level-2 table                                            *)
(***************************************************************************)
DOWNWARD == <<"D", "o", "w", "n", "w", "a", "r", "d">>
BALTICS_NET == <<"B", "a", "l", "t", "i", "c", "s", "_", "n", "e", "t">>

\* the literal factor of `df *= 4`
SCALE == 4

IsDownward_Never(col) == FALSE

IsDownward(col) == Contains(col, DOWNWARD)

RECURSIVE DigitsValue(_)
DigitsValue(s) ==
    IF s = <<>> THEN 0 ELSE 10 * DigitsValue(SubSeq(s, 1, Len(s) - 1)) + DigitVal(s[Len(s)])

IsDigits(s) == Len(s) > 0 /\ \A i \in DOMAIN s : s[i] \in Digits

\* pd.to_numeric(errors='coerce') of one cell (integer texts only are modelled as
\* parseable): a number stays, a text is parsed or becomes NaN, None becomes NaN
to_numeric(c) ==
    IF c.t = "num" THEN c
    ELSE IF c.t = "str" /\ IsDigits(c.s) THEN Num(DigitsValue(c.s))
    ELSE IF c.t = "str" /\ Len(c.s) > 1 /\ c.s[1] = "-" /\ IsDigits(Tail(c.s))
         THEN Num(0 - DigitsValue(Tail(c.s)))
    ELSE NaN

\* cell * k as Python and pandas compute it: a number is multiplied, NaN stays NaN,
\* a str is repeated
RECURSIVE Repeat(_, _)
Repeat(s, k) == IF k <= 0 THEN <<>> ELSE s \o Repeat(s, k - 1)

Times(c, k) ==
    IF c.t = "num" THEN Num(c.n * k)
    ELSE IF c.t = "str" THEN Str(Repeat(c.s, k))
    ELSE NaN

\* line 174: the Downward columns coerced and negated, the others untouched
coerce_downward(df) ==
    [k \in DOMAIN df.data |->
        [c \in Range(df.columns) |->
            IF IsDownward(c) THEN Times(to_numeric(df.data[k][c]), -1) ELSE df.data[k][c]]]

\* line 175: the positions of the rows dropna() keeps
keeps_row_Always(row) == TRUE

keeps_row(row) == \A c \in DOMAIN row : ~IsNA(row[c])

kept_rows(data) == SelectSeq([k \in DOMAIN data |-> k], LAMBDA k : keeps_row(data[k]))

\* line 176, one row of df.sum(axis=1) over the columns `cols`: numbers add up, and a
\* row holding texts only is concatenated (Python's + on str)
RECURSIVE number_sum(_, _)
number_sum(row, cols) ==
    IF cols = <<>> THEN 0
    ELSE number_sum(row, SubSeq(cols, 1, Len(cols) - 1))
         + (IF row[cols[Len(cols)]].t = "num" THEN row[cols[Len(cols)]].n ELSE 0)

row_sum(row, cols) ==
    IF cols # <<>> /\ \A i \in DOMAIN cols : row[cols[i]].t = "str"
    THEN Str(Flatten([i \in DOMAIN cols |-> row[cols[i]].s]))
    ELSE Num(number_sum(row, cols))

\* What lines 173-178 make of the level-2 table df. Only a column that is not
\* Downward can still hold a text after line 174. When a kept row holds a text next
\* to a number, the row-wise sum adds a str to a number: pandas >= 2 raises TypeError
\* (strict), pandas < 2 falls back to summing the numeric-dtype columns only, which
\* leaves out every column that holds a text in any row.
post_process(df, strict) ==
    LET data   == coerce_downward(df)
        keep   == kept_rows(data)
        cols   == IF BALTICS_NET \in Range(df.columns) THEN df.columns
                  ELSE Append(df.columns, BALTICS_NET)
        mixed  == \E j \in DOMAIN keep :
                     /\ \E c \in Range(df.columns) : data[keep[j]][c].t = "str"
                     /\ \E c \in Range(df.columns) : data[keep[j]][c].t = "num"
        summed == IF mixed
                  THEN SelectSeq(df.columns,
                                 LAMBDA c : \A k \in DOMAIN data : data[k][c].t # "str")
                  ELSE df.columns
    IN  IF mixed /\ strict THEN Raised("TypeError", 0)
        ELSE Returned(
               [columns |-> cols,
                index   |-> [j \in DOMAIN keep |-> df.index[keep[j]]],
                data    |-> [j \in DOMAIN keep |->
                               [c \in Range(cols) |->
                                   IF c = BALTICS_NET
                                   THEN Times(row_sum(data[keep[j]], summed), SCALE)
                                   ELSE Times(data[keep[j]][c], SCALE)]]])

(***************************************************************************)
(* __init__ and _get_data                                                  *)
(***************************************************************************)
NoInput == [response |-> NotJson, levels |-> 0]
NoRequest == [id |-> "", start_date |-> NoText, end_date |-> NoText,
              output_time_zone |-> "", output_format |-> ""]
NoResponse == [status |-> 0, body |-> NotJson]
NoUnravel == [response |-> NotJson, levels |-> 0, columns_map |-> <<>>]

\* __init__(start_date, end_date)
Construct(s, e) ==
    /\ phase = "new"
    /\ arg_start' = s
    /\ arg_end' = e
    /\ IF strptime_ok(s) /\ strptime_ok(e)
       THEN /\ phase' = "ready"
            /\ start_date' = s \o T0000
            /\ end_date' = e \o T0000
       ELSE /\ phase' = "failed"
            /\ UNCHANGED <<start_date, end_date>>
    /\ UNCHANGED <<n_calls, call, n_requests, last_request, last_response, n_unravels,
                   last_unravel, outcome, input>>

\* the params of _get_data(api_id)
params(api_id) ==
    [id |-> api_id, start_date |-> start_date, end_date |-> end_date,
     output_time_zone |-> "EET", output_format |-> "json"]

\* `if response.status_code == 200`
status_ok_2xx(status) == status \in 200..299

status_ok(status) == status = 200

\* the record of one _unravel_response(response, levels) invocation
unravel_record(response, levels) ==
    [response |-> response, levels |-> levels,
     columns_map |-> IF response.valid THEN columns_map(response.columns, levels) ELSE <<>>]

\* A facade method: response = self._get_data(api_id), then
\* self._unravel_response(response, levels) and, for the post-processed variant
\* (post), lines 173-178. `resp` is what the endpoint answers the GET with.
Facade(name, api_id, levels, post, resp, strict) ==
    /\ phase = "ready"
    /\ n_calls < MaxCalls
    /\ n_calls' = n_calls + 1
    /\ call' = name
    /\ n_requests' = n_requests + 1
    /\ last_request' = params(api_id)
    /\ last_response' = resp
    /\ IF ~status_ok(resp.status)
       THEN /\ outcome' = Raised("TimeoutError", resp.status)
            /\ UNCHANGED <<n_unravels, last_unravel>>
       ELSE /\ n_unravels' = n_unravels + 1
            /\ last_unravel' = unravel_record(resp.body, levels)
            /\ LET r == unravel(resp.body, levels)
               IN  outcome' = IF post /\ r.kind = "table" THEN post_process(r.df, strict) ELSE r
    /\ UNCHANGED <<phase, arg_start, arg_end, start_date, end_date, input>>


(***************************************************************************)
(* Inputs                                                                  *)
(***************************************************************************)
\* texts handed to the constructor
D_2024_01_15 == <<"2", "0", "2", "4", "-", "0", "1", "-", "1", "5">>
D_2024_02_29 == <<"2", "0", "2", "4", "-", "0", "2", "-", "2", "9">>
D_2023_02_29 == <<"2", "0", "2", "3", "-", "0", "2", "-", "2", "9">>
D_2024_02_30 == <<"2", "0", "2", "4", "-", "0", "2", "-", "3", "0">>
D_2024_13_01 == <<"2", "0", "2", "4", "-", "1", "3", "-", "0", "1">>
D_2024_1_5 == <<"2", "0", "2", "4", "-", "1", "-", "5">>
D_2024_01_15T == <<"2", "0", "2", "4", "-", "0", "1", "-", "1", "5", "T", "0", "0", ":", "0", "0">>
D_15_01_2024 == <<"1", "5", "-", "0", "1", "-", "2", "0", "2", "4">>
D_slashes == <<"2", "0", "2", "4", "/", "0", "1", "/", "1", "5">>
D_empty == <<>>

DateStrings ==
    {D_2024_01_15, D_2024_02_29, D_2023_02_29, D_2024_02_30, D_2024_13_01, D_2024_1_5,
     D_2024_01_15T, D_15_01_2024, D_slashes, D_empty}

\* label texts
A == <<"A">>
B == <<"B">>
C == <<"C">>
D == <<"D">>
E == <<"E">>
F == <<"F">>
X == <<"X">>
LT == <<"L", "T">>
EE == <<"E", "E">>
LV == <<"L", "V">>
AFRR == <<"a", "F", "R", "R">>
UPWARD == <<"U", "p", "w", "a", "r", "d">>
UP == <<"U", "p">>
N_A == <<"n", "/", "a">>
SEVEN == <<"7">>

\* "from" texts around the spring transition of 2024 (2024-03-31T01:00Z):
\* "2024-03-30T22:00:00Z", "2024-03-31T01:00:00Z" and "2024-03-31T04:00:00+03:00"
WinterZ == Stamp(2158, 0)
SummerZ == Stamp(2161, 0)
SummerPlus3 == Stamp(2164, 3)

Stamps == {WinterZ, SummerZ, SummerPlus3}

\* the responses the endpoint gives in Spec
UpDown == <<Col(0, LT, AFRR, UPWARD), Col(1, LT, AFRR, DOWNWARD)>>

MainBodies ==
    {NotJson,
     Body(UpDown, <<>>),
     Body(UpDown, <<Entry(WinterZ, <<Num(5), Num(3)>>)>>)}

Statuses == {200, 204, 500}

Responses ==
    {[status |-> 200, body |-> b] : b \in MainBodies}
    \cup {[status |-> st, body |-> NotJson] : st \in Statuses \ {200}}

(***************************************************************************)
(* The facade methods                                                      *)
(***************************************************************************)
procured_balancing_reserve_prices_df ==
    \E resp \in Responses :
        Facade("procured_balancing_reserve_prices_df", "price_procured_reserves", 3, FALSE, resp, TRUE)

cbmp_df ==
    \E resp \in Responses :
        Facade("cbmp_df", "cross_border_marginal_price", 3, FALSE, resp, TRUE)

imbalance_volumes_df ==
    \E resp \in Responses :
        Facade("imbalance_volumes_df", "imbalance_volumes_v2", 1, FALSE, resp, TRUE)

activated_afrr_volumes_df ==
    \E resp \in Responses :
        Facade("activated_afrr_volumes_df", "activations_afrr", 2, FALSE, resp, TRUE)

balancing_energy_ref_prices_df ==
    \E resp \in Responses :
        Facade("balancing_energy_ref_prices_df", "balancing_energy_prices", 2, FALSE, resp, TRUE)

current_balancing_state_df ==
    \E resp \in Responses :
        Facade("current_balancing_state_df", "current_balancing_state_v2", 1, FALSE, resp, TRUE)

direction_of_system_balancing_df ==
    \E resp \in Responses :
        Facade("direction_of_system_balancing_df", "direction_of_balancing_v2", 1, FALSE, resp, TRUE)

imbalance_prices_df_Depth2 ==
    \E resp \in Responses :
        Facade("imbalance_prices_df", "imbalance_prices", 2, FALSE, resp, TRUE)

imbalance_prices_df ==
    \E resp \in Responses :
        Facade("imbalance_prices_df", "imbalance_prices", 1, FALSE, resp, TRUE)

local_marginal_prices_df ==
    \E resp \in Responses :
        Facade("local_marginal_prices_df", "local_marginal_price", 2, FALSE, resp, TRUE)

local_marginal_afrr_prices_df ==
    \E resp \in Responses :
        Facade("local_marginal_afrr_prices_df", "local_marginal_price_afrr", 2, FALSE, resp, TRUE)

normal_activations_da_volumes_df ==
    \E resp \in Responses :
        Facade("normal_activations_da_volumes_df", "normal_activations_da_mfrr", 2, FALSE, resp, TRUE)

normal_activations_sa_volumes_df ==
    \E resp \in Responses :
        Facade("normal_activations_sa_volumes_df", "normal_activations_sa_mfrr", 2, FALSE, resp, TRUE)

normal_activations_total_volumes_df ==
    \E resp \in Responses :
        Facade("normal_activations_total_volumes_df", "normal_activations_total", 2, FALSE, resp, TRUE)

total_satisfied_demand_for_balancing_purposes_df ==
    \E resp \in Responses :
        Facade("total_satisfied_demand_for_balancing_purposes_df", "total_satisfied_demand_for_balancing_purposes", 2, FALSE, resp, TRUE)

total_satisfied_demand_for_balancing_purposes_mod_df ==
    \E resp \in Responses, strict \in BOOLEAN :
        Facade("total_satisfied_demand_for_balancing_purposes_mod_df",
               "total_satisfied_demand_for_balancing_purposes", 2, TRUE, resp, strict)

(***************************************************************************)
(* Spec: one client, from construction on                                  *)
(***************************************************************************)
Init ==
    /\ phase = "new"
    /\ arg_start = NoText
    /\ arg_end = NoText
    /\ start_date = NoText
    /\ end_date = NoText
    /\ n_calls = 0
    /\ call = ""
    /\ n_requests = 0
    /\ last_request = NoRequest
    /\ last_response = NoResponse
    /\ n_unravels = 0
    /\ last_unravel = NoUnravel
    /\ outcome = NoOutcome
    /\ input = NoInput

New == \E s \in DateStrings, e \in DateStrings : Construct(s, e)

Next ==
    \/ New
    \/ procured_balancing_reserve_prices_df
    \/ cbmp_df
    \/ imbalance_volumes_df
    \/ activated_afrr_volumes_df
    \/ balancing_energy_ref_prices_df
    \/ current_balancing_state_df
    \/ direction_of_system_balancing_df
    \/ imbalance_prices_df
    \/ local_marginal_prices_df
    \/ local_marginal_afrr_prices_df
    \/ normal_activations_da_volumes_df
    \/ normal_activations_sa_volumes_df
    \/ normal_activations_total_volumes_df
    \/ total_satisfied_demand_for_balancing_purposes_df
    \/ total_satisfied_demand_for_balancing_purposes_mod_df

Spec == Init /\ [][Next]_vars


(***************************************************************************)
(* SpecUnravel: _unravel_response applied once to a response drawn from    *)
(* ColumnsInputs, TimeseriesInputs and Levels                              *)
(***************************************************************************)
\* data.columns arrays: none; one; two whose names collide at depth 1 only; two with
\* distinct names at every depth; two whose names collide at depths 1 and 2; indexes
\* out of order; one index twice; an index left out; a group called "datetime"; three
\* descriptors; an index no entry reaches
ColumnsInputs ==
    {<<>>,
     <<Col(0, A, B, C)>>,
     <<Col(0, A, B, C), Col(1, A, B, D)>>,
     <<Col(0, A, B, C), Col(1, E, B, C)>>,
     <<Col(0, A, B, C), Col(1, A, X, C)>>,
     <<Col(1, E, B, C), Col(0, A, B, C)>>,
     <<Col(0, A, B, C), Col(0, E, B, C)>>,
     <<Col(0, A, B, C), Col(2, E, B, C)>>,
     <<Col(0, DATETIME, B, C)>>,
     <<Col(0, A, B, C), Col(1, E, B, C), Col(2, F, B, D)>>,
     <<Col(MaxValues + 2, A, B, C)>>}

Levels == {1, 2, 3}

\* the k-th entry of a timeseries: `n` values, each telling its entry and position
ValuesOf(k, n) == [i \in 1..n |-> Num(10 * k + i)]

EntryShapes == [stamp : Stamps, n : 0..MaxValues]

TimeseriesInputs ==
    {[k \in DOMAIN shapes |-> Entry(shapes[k].stamp, ValuesOf(k, shapes[k].n))] :
        shapes \in UNION {[1..len -> EntryShapes] : len \in 0..MaxEntries}}

\* input is one of the responses above and a depth
UnravelInput ==
    \E cols \in ColumnsInputs, ts \in TimeseriesInputs, lv \in Levels :
        input = [response |-> Body(cols, ts), levels |-> lv]

\* a client built from ("2024-01-15", "2024-02-29"), no call made yet
Constructed ==
    /\ phase = "ready"
    /\ arg_start = D_2024_01_15
    /\ arg_end = D_2024_02_29
    /\ start_date = D_2024_01_15 \o T0000
    /\ end_date = D_2024_02_29 \o T0000
    /\ n_calls = 0
    /\ call = ""
    /\ n_requests = 0
    /\ last_request = NoRequest
    /\ last_response = NoResponse
    /\ n_unravels = 0
    /\ last_unravel = NoUnravel
    /\ outcome = NoOutcome

InitUnravel == Constructed /\ UnravelInput

\* self._unravel_response(input.response, input.levels), called directly
unravel_response ==
    /\ phase = "ready"
    /\ n_unravels = 0
    /\ n_unravels' = n_unravels + 1
    /\ last_unravel' = unravel_record(input.response, input.levels)
    /\ outcome' = unravel(input.response, input.levels)
    /\ UNCHANGED <<phase, arg_start, arg_end, start_date, end_date, n_calls, call,
                   n_requests, last_request, last_response, input>>

NextUnravel == unravel_response

SpecUnravel == InitUnravel /\ [][NextUnravel]_vars

(***************************************************************************)
(* SpecMod: total_satisfied_demand_for_balancing_purposes_mod_df called    *)
(* once, the endpoint answering 200 with a response as ModInput draws it   *)
(***************************************************************************)
ModCells == {Num(5), Num(3), Null, Str(N_A), Str(SEVEN)}

\* the columns a response may describe, in three orders
ModPools ==
    {<<Col(0, LT, AFRR, UPWARD), Col(1, LT, AFRR, DOWNWARD), Col(2, EE, AFRR, UPWARD),
       Col(3, EE, AFRR, DOWNWARD), Col(4, LV, AFRR, UPWARD), Col(5, LV, AFRR, DOWNWARD)>>,
     <<Col(0, LT, AFRR, DOWNWARD), Col(1, LT, AFRR, UPWARD), Col(2, EE, AFRR, DOWNWARD),
       Col(3, EE, AFRR, UPWARD), Col(4, LV, AFRR, DOWNWARD), Col(5, LV, AFRR, UPWARD)>>,
     <<Col(0, LT, AFRR, UPWARD), Col(1, EE, AFRR, UPWARD), Col(2, LV, AFRR, UPWARD),
       Col(3, LT, AFRR, UP), Col(4, EE, AFRR, UP), Col(5, LV, AFRR, UP)>>}

\* tables of `rows` rows and `width` columns, rows * width <= MaxCells
ModShapes ==
    {sh \in [rows : 0..MaxCells, width : 1..6] : sh.rows * sh.width <= MaxCells}

\* input is a table of one of these shapes over the first columns of a pool, its k-th
\* row stamped k hours after "2024-03-30T22:00:00Z"
ModInput ==
    \E sh \in ModShapes, pool \in ModPools :
        \E cells \in [1..sh.rows -> [1..sh.width -> ModCells]] :
            input = [response |-> Body(SubSeq(pool, 1, sh.width),
                                       [k \in 1..sh.rows |-> Entry(Stamp(2158 + k, 0), cells[k])]),
                     levels |-> 2]

InitMod == Constructed /\ ModInput

mod_df_once ==
    /\ n_calls = 0
    /\ \E strict \in BOOLEAN :
          Facade("total_satisfied_demand_for_balancing_purposes_mod_df",
                 "total_satisfied_demand_for_balancing_purposes", 2, TRUE,
                 [status |-> 200, body |-> input.response], strict)

NextMod == mod_df_once

SpecMod == InitMod /\ [][NextMod]_vars


(***************************************************************************)
(* Properties                                                              *)
(***************************************************************************)
\* the strict shape YYYY-MM-DD naming a calendar date
StrictYMD(s) ==
    /\ Len(s) = 10
    /\ \A i \in {1, 2, 3, 4, 6, 7, 9, 10} : s[i] \in Digits
    /\ s[5] = "-" /\ s[8] = "-"
    /\ LET year == DigitsValue(SubSeq(s, 1, 4))
           mon  == DigitsValue(SubSeq(s, 6, 7))
           day  == DigitsValue(SubSeq(s, 9, 10))
       IN  year >= 1 /\ mon \in 1..12 /\ day \in 1..DaysInMonth(year, mon)

\* C1: construction succeeds exactly for two texts of the strict shape YYYY-MM-DD that
\* name dates, fails with the format error for every other text, and a failed
\* construction has issued no request.
C1_StrictFormatOnly ==
    phase # "new" =>
        /\ (phase = "ready") <=> (StrictYMD(arg_start) /\ StrictYMD(arg_end))
        /\ phase = "failed" => n_requests = 0

\* the step is one facade call
FacadeStep == n_calls' = n_calls + 1

\* C2: a facade call whose GET is answered with a status other than 200 issues that one
\* request only, never invokes _unravel_response, and raises the transport error
\* carrying the status, with no table; a 200 hands the body on as it came.
C2_Non200RaisesOnce ==
    [][FacadeStep =>
        /\ n_requests' = n_requests + 1
        /\ IF last_response'.status # 200
           THEN /\ n_unravels' = n_unravels
                /\ last_unravel' = last_unravel
                /\ outcome' = [kind |-> "error", exc |-> "TimeoutError",
                               status |-> last_response'.status, df |-> EmptyDF]
           ELSE /\ n_unravels' = n_unravels + 1
                /\ last_unravel'.response = last_response'.body]_vars

\* C2 witness: a 200 call followed by a 500 call: two requests, one unravel, the error
\* carries 500.
C2_Witness ==
    /\ n_calls = 2 /\ n_requests = 2 /\ n_unravels = 1
    /\ last_response.status = 500
    /\ outcome.kind = "error" /\ outcome.status = 500

\* the series catalog: facade method -> series id and grouping depth
CatalogId ==
    [m \in {"procured_balancing_reserve_prices_df"} |-> "price_procured_reserves"]
    @@ [m \in {"cbmp_df"} |-> "cross_border_marginal_price"]
    @@ [m \in {"imbalance_volumes_df"} |-> "imbalance_volumes_v2"]
    @@ [m \in {"activated_afrr_volumes_df"} |-> "activations_afrr"]
    @@ [m \in {"balancing_energy_ref_prices_df"} |-> "balancing_energy_prices"]
    @@ [m \in {"current_balancing_state_df"} |-> "current_balancing_state_v2"]
    @@ [m \in {"direction_of_system_balancing_df"} |-> "direction_of_balancing_v2"]
    @@ [m \in {"imbalance_prices_df"} |-> "imbalance_prices"]
    @@ [m \in {"local_marginal_prices_df"} |-> "local_marginal_price"]
    @@ [m \in {"local_marginal_afrr_prices_df"} |-> "local_marginal_price_afrr"]
    @@ [m \in {"normal_activations_da_volumes_df"} |-> "normal_activations_da_mfrr"]
    @@ [m \in {"normal_activations_sa_volumes_df"} |-> "normal_activations_sa_mfrr"]
    @@ [m \in {"normal_activations_total_volumes_df"} |-> "normal_activations_total"]
    @@ [m \in {"total_satisfied_demand_for_balancing_purposes_df",
               "total_satisfied_demand_for_balancing_purposes_mod_df"} |->
            "total_satisfied_demand_for_balancing_purposes"]

CatalogDepth(id) ==
    IF id \in {"price_procured_reserves", "cross_border_marginal_price"} THEN 3
    ELSE IF id \in {"imbalance_volumes_v2", "current_balancing_state_v2",
                    "direction_of_balancing_v2", "imbalance_prices"} THEN 1
    ELSE 2

\* the one GET of a call of method m
OneGet(m) ==
    /\ m \in DOMAIN CatalogId
    /\ n_requests' = n_requests + 1
    /\ last_request' = [id |-> CatalogId[m],
                        start_date |-> arg_start \o T0000,
                        end_date |-> arg_end \o T0000,
                        output_time_zone |-> "EET",
                        output_format |-> "json"]
    /\ start_date' = start_date /\ end_date' = end_date
    /\ arg_start' = arg_start /\ arg_end' = arg_end

\* the one unravel of that call, of the response received, at the catalog's depth
OneUnravel(m) ==
    /\ n_unravels' = n_unravels + 1
    /\ last_unravel'.response = last_response'.body
    /\ last_unravel'.levels = CatalogDepth(CatalogId[m])

\* C7 as stated: every facade call performs exactly one GET with the catalog's id and
\* the fixed parameters, followed by exactly one unravel at the catalog's depth, and
\* leaves the date range alone.
C7_OneGetOneUnravel ==
    [][FacadeStep => OneGet(call') /\ OneUnravel(call')]_vars

\* C7 amended: every facade call performs exactly one GET with the catalog's id and
\* the fixed parameters and leaves the date range alone; exactly one unravel at the
\* catalog's depth follows when the GET is answered 200, none otherwise.
C7_OneGetUnravelOn200 ==
    [][FacadeStep =>
        /\ OneGet(call')
        /\ IF last_response'.status = 200 THEN OneUnravel(call')
           ELSE n_unravels' = n_unravels]_vars

\* C7 witness: a second call on the same client, both answered 200, the second a
\* depth-3 series.
C7_Witness ==
    /\ n_calls = 2 /\ n_requests = 2 /\ n_unravels = 2
    /\ call = "cbmp_df"
    /\ last_request.id = "cross_border_marginal_price"
    /\ last_unravel.levels = 3


\* the arguments and the result of the single _unravel_response call of SpecUnravel
U_cols == last_unravel.response.columns
U_series == last_unravel.response.timeseries
U_depth == last_unravel.levels
U_done == n_unravels = 1 /\ n_calls = 0
U_table == U_done /\ outcome.kind = "table"

\* the display name the naming rule gives a descriptor at a depth
RuleName(col, depth) ==
    CASE depth = 1 -> col.group_level_0
      [] depth = 2 -> col.group_level_0 \o <<" ">> \o col.label
      [] depth = 3 -> col.group_level_0 \o <<" ">> \o col.group_level_1 \o <<" ">> \o col.label

\* descriptor k is the one the mapping keeps for its index (the last with that index)
Kept(k) == \A j \in DOMAIN U_cols : U_cols[j].index = U_cols[k].index => j <= k

\* C3: the name unravel derives for every column descriptor follows the depth rule:
\* depth 1 group_level_0, depth 2 group_level_0 and label, depth 3 group_level_0,
\* group_level_1 and label, joined by single spaces.
C3_NamesByDepth ==
    (U_done /\ last_unravel.response.valid) =>
        /\ DOMAIN last_unravel.columns_map = {U_cols[k].index : k \in DOMAIN U_cols}
        /\ \A k \in DOMAIN U_cols :
              Kept(k) => last_unravel.columns_map[U_cols[k].index] = RuleName(U_cols[k], U_depth)

\* C3 witness: the descriptor A / B / C at depth 3 is named "A B C", and the table
\* returned has that column.
C3_Witness ==
    /\ U_table
    /\ U_depth = 3
    /\ U_cols = <<Col(0, A, B, C)>>
    /\ last_unravel.columns_map[0] = <<"A", " ", "B", " ", "C">>
    /\ outcome.df.columns = <<<<"A", " ", "B", " ", "C">>>>

\* position idx (0-based) has a column descriptor
HasDescriptor(idx) == \E k \in DOMAIN U_cols : U_cols[k].index = idx

\* every entry carries n values, and n - 1 descriptors describe n - 1 of those positions
OneShort(n) ==
    /\ \A k \in DOMAIN U_series : Len(U_series[k].values) = n
    /\ Len(U_cols) = n - 1
    /\ \A k \in DOMAIN U_cols : U_cols[k].index \in 0..(n - 1)
    /\ \A j, k \in DOMAIN U_cols : j # k => U_cols[j].index # U_cols[k].index

\* the display names of the descriptors are pairwise distinct at the depth used
DistinctNames ==
    \A j, k \in DOMAIN U_cols :
        j # k => RuleName(U_cols[j], U_depth) # RuleName(U_cols[k], U_depth)

\* no value of a position without a descriptor shows in any row
UnmappedExcluded ==
    \A k \in DOMAIN U_series : \A i \in 1..Len(U_series[k].values) :
        ~HasDescriptor(i - 1) =>
            \A c \in DOMAIN outcome.df.data[k] : outcome.df.data[k][c] # U_series[k].values[i]

\* every value of a position with a descriptor shows under that descriptor's name
MappedPresent ==
    \A k \in DOMAIN U_series : \A i \in 1..Len(U_series[k].values) : \A d \in DOMAIN U_cols :
        (U_cols[d].index = i - 1 /\ Kept(d)) =>
            /\ RuleName(U_cols[d], U_depth) \in DOMAIN outcome.df.data[k]
            /\ outcome.df.data[k][RuleName(U_cols[d], U_depth)] = U_series[k].values[i]

\* C4 as stated: in a table unravel returns, values without a descriptor are excluded,
\* every value with a descriptor is under its descriptor's name, and N values per
\* entry with N-1 descriptors give exactly N-1 columns.
C4_OneShortGivesOneLess ==
    U_table =>
        /\ UnmappedExcluded
        /\ MappedPresent
        /\ \A n \in 1..(MaxValues + 1) : OneShort(n) => Len(outcome.df.columns) = n - 1

\* C4 amended: in a table unravel returns, values without a descriptor are excluded;
\* when the descriptors' display names are pairwise distinct at the depth used, every
\* value with a descriptor is under its descriptor's name and N values per entry with
\* N-1 descriptors give exactly N-1 columns.
C4_DistinctNamesOneLess ==
    U_table =>
        /\ UnmappedExcluded
        /\ DistinctNames =>
              /\ MappedPresent
              /\ \A n \in 1..(MaxValues + 1) : OneShort(n) => Len(outcome.df.columns) = n - 1

\* C4 witness: three values per entry, descriptors for positions 0 and 1 with distinct
\* names, a table of two columns without the third value.
C4_Witness ==
    /\ U_table
    /\ U_depth = 1
    /\ U_cols = <<Col(0, A, B, C), Col(1, E, B, C)>>
    /\ Len(U_series) = 2
    /\ OneShort(3)
    /\ outcome.df.columns = <<A, E>>
    /\ outcome.df.data[2] = (A :> Num(21) @@ E :> Num(22))

\* the instant a "from" text names, and its Europe/Vilnius civil reading in 2024:
\* UTC+3 from 2024-03-31T01:00Z (hour 2161) to 2024-10-27T01:00Z (hour 7201), else UTC+2
InstantOf(stamp) == stamp.wall - stamp.off
InSummerTime(utc) == utc >= 2161 /\ utc < 7201
CivilVilnius(utc) == IF InSummerTime(utc) THEN utc + 3 ELSE utc + 2

\* C8: the row index of every entry is the Europe/Vilnius civil time of the instant its
\* "from" names, offset discarded: UTC+2 in winter time, UTC+3 in summer time.
C8_VilniusCivilTime ==
    U_table =>
        /\ Len(outcome.df.index) = Len(U_series)
        /\ \A k \in DOMAIN U_series :
              outcome.df.index[k] = CivilVilnius(InstantOf(U_series[k].from_))

\* C8 witness: one table holding an instant before the spring transition, shifted by
\* 2 hours, and one after it, shifted by 3.
C8_Witness ==
    /\ U_table
    /\ Len(U_series) = 2
    /\ U_series[1].from_ = WinterZ /\ outcome.df.index[1] = WinterZ.wall + 2
    /\ U_series[2].from_ = SummerZ /\ outcome.df.index[2] = SummerZ.wall + 3

\* the cells row k must carry: under each name the naming rule gives a described
\* position, the value of the last such position the entry has
CarriesEntry(k) ==
    \A i \in 1..Len(U_series[k].values) : \A d \in DOMAIN U_cols :
        (U_cols[d].index = i - 1 /\ Kept(d)
         /\ \A i2 \in 1..Len(U_series[k].values) : \A d2 \in DOMAIN U_cols :
               (U_cols[d2].index = i2 - 1 /\ Kept(d2)
                /\ RuleName(U_cols[d2], U_depth) = RuleName(U_cols[d], U_depth)) => i2 <= i)
        => outcome.df.data[k][RuleName(U_cols[d], U_depth)] = U_series[k].values[i]

\* C9: for every well-formed response with at least one timeseries entry unravel
\* returns a table with one row per entry, in the order of the entries, the k-th row
\* carrying the k-th entry's timestamp and values.
C9_RowPerEntryInOrder ==
    (U_done /\ last_unravel.response.valid /\ Len(U_series) >= 1) =>
        /\ outcome.kind = "table"
        /\ Len(outcome.df.data) = Len(U_series)
        /\ Len(outcome.df.index) = Len(U_series)
        /\ \A k \in DOMAIN U_series :
              /\ outcome.df.index[k] = CivilVilnius(InstantOf(U_series[k].from_))
              /\ CarriesEntry(k)

\* C10: a response whose timeseries is empty makes unravel fail (the assembled table
\* has no 'datetime' column) instead of returning an empty table.
C10_EmptyTimeseriesRaises ==
    (U_done /\ last_unravel.response.valid /\ Len(U_series) = 0) =>
        /\ outcome.kind = "error"
        /\ outcome.exc = "KeyError"

\* C10 witness: two descriptors, no entry, KeyError.
C10_Witness ==
    /\ U_done
    /\ Len(U_cols) = 2
    /\ U_series = <<>>
    /\ U_depth = 2
    /\ outcome.kind = "error" /\ outcome.exc = "KeyError"


\* the response and the result of the single post-processed call of SpecMod; the
\* level-2 table exists when the response has an entry
M_cols == last_unravel.response.columns
M_series == last_unravel.response.timeseries
M_done ==
    /\ n_calls = 1 /\ n_unravels = 1
    /\ call = "total_satisfied_demand_for_balancing_purposes_mod_df"
    /\ last_response.status = 200
    /\ Len(M_series) >= 1

\* the level-2 table: its cell in row k under descriptor d, the name of that column,
\* and the timestamp of row k
M_cell(k, d) == M_series[k].values[M_cols[d].index + 1]
M_name(d) == RuleName(M_cols[d], 2)
M_time(k) == CivilVilnius(InstantOf(M_series[k].from_))
M_down(d) == Contains(M_name(d), DOWNWARD)

IsMissing(c) == c.t \in {"null", "nan"}
IsNumericText(c) == c.t = "str" /\ IsDigits(c.s)
IsNumeric(c) == c.t = "num" \/ IsNumericText(c)
NumberOf(c) == IF c.t = "num" THEN c.n ELSE DigitsValue(c.s)

\* the timestamps of the rows that satisfy Keep, in the order of the level-2 table
RowsWhere(Keep(_)) ==
    LET ks == SelectSeq([k \in DOMAIN M_series |-> k], Keep)
    IN  [j \in DOMAIN ks |-> M_time(ks[j])]

\* sum of the first n columns of row k, the Downward ones counted negative
RECURSIVE NetOf(_, _)
NetOf(k, n) ==
    IF n = 0 THEN 0
    ELSE NetOf(k, n - 1) + (IF M_down(n) THEN 0 - NumberOf(M_cell(k, n)) ELSE NumberOf(M_cell(k, n)))

\* no cell of row k is missing and no Downward cell of it is unparseable
NoneMissingDownwardNumeric(k) ==
    \A d \in DOMAIN M_cols :
        /\ ~IsMissing(M_cell(k, d))
        /\ M_down(d) => IsNumeric(M_cell(k, d))

\* the rows with no missing cell and no unparseable Downward cell hold numbers in the
\* columns that are not Downward
NumbersElsewhere ==
    \A k \in DOMAIN M_series : \A d \in DOMAIN M_cols :
        (NoneMissingDownwardNumeric(k) /\ ~M_down(d)) => M_cell(k, d).t = "num"

\* output row j is row k of the level-2 table scaled: 4*v, -4*v under Downward, and
\* Baltics_net 4 times the net sum
ScaledRow(j, k) ==
    /\ DOMAIN outcome.df.data[j] = {M_name(d) : d \in DOMAIN M_cols} \cup {BALTICS_NET}
    /\ \A d \in DOMAIN M_cols :
          IF M_down(d)
          THEN IsNumeric(M_cell(k, d)) =>
                  outcome.df.data[j][M_name(d)] = Num((0 - 4) * NumberOf(M_cell(k, d)))
          ELSE M_cell(k, d).t = "num" =>
                  outcome.df.data[j][M_name(d)] = Num(4 * M_cell(k, d).n)
    /\ outcome.df.data[j][BALTICS_NET] = Num(4 * NetOf(k, Len(M_cols)))

\* C5: every row the post-processed variant retains holds 4*v under each column whose
\* name does not contain "Downward", -4*v under each that does, and Baltics_net =
\* 4 * (sum of the non-Downward values - sum of the Downward values), the values v of
\* the level-2 table being numbers (a Downward value may be a numeric text).
C5_ScaledSignedNet ==
    (M_done /\ outcome.kind = "table" /\ NumbersElsewhere) =>
        /\ Len(outcome.df.data) = Len(outcome.df.index)
        /\ \A j \in DOMAIN outcome.df.index :
              \E k \in DOMAIN M_series : M_time(k) = outcome.df.index[j] /\ ScaledRow(j, k)

\* C5 witness: Up = 5, Downward = 3 gives Up = 20, Downward = -12, Baltics_net = 8.
C5_Witness ==
    /\ M_done
    /\ M_cols = UpDown
    /\ M_series[1].values = <<Num(5), Num(3)>>
    /\ outcome.kind = "table"
    /\ outcome.df.data[1] = (LT \o SP \o UPWARD :> Num(20) @@ LT \o SP \o DOWNWARD :> Num(-12)
                             @@ BALTICS_NET :> Num(8))

\* no cell of row k is missing or unparseable
AllCellsNumeric(k) == \A d \in DOMAIN M_cols : IsNumeric(M_cell(k, d))

\* C6 as stated: the call does not fail and its output holds exactly the rows none of
\* whose cells, in any column, is missing or unparseable.
C6_DropsEveryBadRow ==
    M_done =>
        /\ outcome.kind = "table"
        /\ outcome.df.index = RowsWhere(AllCellsNumeric)

\* C6 amended: the output holds exactly the rows with no missing cell and no
\* unparseable cell in a Downward column (only those columns are coerced), and the
\* call does not fail when the other columns of these rows hold numbers.
C6_DropsMissingOrBadDownward ==
    M_done =>
        /\ outcome.kind = "table" => outcome.df.index = RowsWhere(NoneMissingDownwardNumeric)
        /\ NumbersElsewhere => outcome.kind = "table"

\* C6 witness: of two rows the first, with "n/a" under Downward, is dropped and the
\* second is kept.
C6_Witness ==
    /\ M_done
    /\ M_cols = UpDown
    /\ Len(M_series) = 2
    /\ M_series[1].values = <<Num(5), Str(N_A)>>
    /\ M_series[2].values = <<Num(5), Num(3)>>
    /\ outcome.kind = "table"
    /\ outcome.df.index = <<M_time(2)>>


====
